---- MODULE Spec2Model ----
\* Three-player-chess plugin for the mirabel / surena hosts:
\*   src/src/game.rs      the Game Adapter      (ThreePlayerChessGame)
\*   src/src/frontend.rs  the Interaction Adapter (MirabelFrontend)
\* The rules engine (crate three_player_chess) and its interaction surface
\* (crate three_player_chess_frontend) are dependencies the two adapters call
\* through a narrow interface.  They are represented by a small three-player
\* race game with the same interface: a board with a turn, a status, a move
\* counter and a position, moves that can be generated, validated, performed
\* and reverted, a move-code codec and a state-string codec.
EXTENDS Integers, Sequences, FiniteSets, TLC

VARIABLES
    game,           \* the host's ThreePlayerChessGame: [options, board]
    game_call,      \* the last Game Adapter call: [op, player, code, res, out]
    frontend,       \* the MirabelFrontend (fe fields, disabled) and its outbox
    frontend_call,  \* the last Interaction Adapter call and what it did
    inbox,          \* confirmed moves the host has not yet pushed to the frontend
    guard_finished  \* whether the engine build refuses every move once a game is over

vars == <<game, game_call, frontend, frontend_call, inbox, guard_finished>>

\* ------------------------------------------------------------------ bounds
\* Position at which the race is won (the engine's "checkmate").
Goal == 4
\* Move counter at which an undecided game is drawn (the engine's move-count rule).
MoveLimit == 3
\* Most moves the interaction surface records for one pointer event.
MaxBurst == 2
\* Most moves a board is advanced by before the exploration stops.
MaxPly == 3

\* ------------------------------------------------------- program constants
\* player_count: HB_COUNT as u8
HB_COUNT == 3
\* SDL button numbers compared in process_input
SDL_BUTTON_LEFT == 1
SDL_BUTTON_RIGHT == 3
\* player_id is a u8
U8 == 256
\* buf_sizer entries declared by GameOptions::sizer
max_players_to_move == 1
max_results == 1

\* Option<T>: <<>> is None, <<x>> is Some(x).
None == <<>>
Some(x) == <<x>>

\* ------------------------------------------------------------ rules engine
Colors == 0 .. HB_COUNT - 1
Moves == {1, 2}
MoveOrder == <<1, 2>>

\* Color::next
next(c) == (c + 1) % HB_COUNT
prev(c) == (c + HB_COUNT - 1) % HB_COUNT

RECURSIVE next_n(_, _)
next_n(c, n) == IF n = 0 THEN c ELSE next_n(next(c), n - 1)

Ongoing == <<"Ongoing">>
Win(c) == <<"Win", c>>
Draw == <<"Draw">>

\* The status the engine derives for a position.
status_of(pos, turn, move_index) ==
    IF pos >= Goal THEN Win(prev(turn))
    ELSE IF move_index >= MoveLimit THEN Draw
    ELSE Ongoing

\* ThreePlayerChess::default
default_board ==
    [pos |-> 0, turn |-> 0, move_index |-> 0, game_status |-> Ongoing]

\* ThreePlayerChess::is_valid_move.  The adapters never say whether the engine
\* still validates (and generates) moves once game_status is no longer
\* Ongoing; guard_finished, fixed at start, covers both engine builds.
is_valid_move(b, m) ==
    /\ m \in Moves
    /\ b.pos + m <= Goal
    /\ (guard_finished => b.game_status = Ongoing)

\* ThreePlayerChess::gen_moves
gen_moves(b) ==
    IF guard_finished /\ b.game_status # Ongoing THEN <<>>
    ELSE SelectSeq(MoveOrder, LAMBDA m : b.pos + m <= Goal)

\* ThreePlayerChess::perform_move (no validation of its own)
perform_move(b, m) ==
    [pos |-> b.pos + m,
     turn |-> next(b.turn),
     move_index |-> b.move_index + 1,
     game_status |-> status_of(b.pos + m, next(b.turn), b.move_index + 1)]

\* ReversableMove::new
reversable_move(b, m) == [mov |-> m, prev_status |-> b.game_status]

\* ThreePlayerChess::revert_move
revert_move(b, rm) ==
    [pos |-> b.pos - rm.mov,
     turn |-> prev(b.turn),
     move_index |-> b.move_index - 1,
     game_status |-> rm.prev_status]

\* u64::from(Move)
move_into(m) == 2 * m + 1

\* Move::try_from(u64)
move_try_from(code) ==
    IF code % 2 = 1 /\ (code - 1) \div 2 \in Moves
    THEN Some((code - 1) \div 2) ELSE None

\* Move::to_string
move_to_string(b, m) == IF m = 1 THEN "step" ELSE "leap"

\* move codes a host or a UI may hand over: 3 and 5 decode, the others do not
Codes == {2, 3, 4, 5}

\* ThreePlayerChess::state_string
state_string(b) == <<b.pos, b.turn, b.move_index>>

\* ThreePlayerChess::from_str: Ok(board) or Err(diagnostic)
from_str(s) ==
    IF /\ Len(s) = 3
       /\ s[1] \in 0 .. Goal
       /\ s[2] \in Colors
       /\ s[3] \in Nat
    THEN [ok |-> TRUE,
          board |-> [pos |-> s[1], turn |-> s[2], move_index |-> s[3],
                     game_status |-> status_of(s[1], s[2], s[3])]]
    ELSE [ok |-> FALSE, board |-> default_board]

\* state strings a host may hand over; <<2, 5>> is malformed
StateStrs == {<<1, 1, 1>>, <<3, 0, 3>>, <<2, 5>>}

\* ---------------------------------------------------------------- game.rs
\* GameInit
InitDefault ==
    [kind |-> "Default", opts |-> None, legacy |-> None, state |-> None]
InitSerialized ==
    [kind |-> "Serialized", opts |-> None, legacy |-> None, state |-> None]
InitInfos ==
    {InitDefault, InitSerialized} \cup
    [kind : {"Standard"}, opts : {None, Some("")},
     legacy : {None, Some("legacy")},
     state : {None} \cup {Some(s) : s \in StateStrs}]

\* player ids a host may pass (u8)
PlayerIds == {0, 1, 2, 3, 4, 255}

player_from_id_wrapping(player) ==
    Some(((player + U8 - 1) % U8) % HB_COUNT)

\* player_from_id: Some(color), or None when the expect() fails
player_from_id(player) ==
    LET c == (player + U8 - 1) % U8
    IN  IF c \in Colors THEN Some(c) ELSE None

\* player_to_id
player_to_id(color) == (color + 1) % U8

\* GameOptions::new
GameOptions_new(options) == "GameOptions"

create_ignores_legacy(init_info) ==
    IF init_info.kind = "Serialized"
    THEN [res |-> "FeatureUnsupported", game |-> None]
    ELSE LET options == IF init_info.opts = None THEN "GameOptions"
                        ELSE GameOptions_new(init_info.opts[1])
             parsed == IF init_info.state = None
                       THEN [ok |-> TRUE, board |-> default_board]
                       ELSE from_str(init_info.state[1])
         IN  IF ~parsed.ok THEN [res |-> "InvalidState", game |-> None]
             ELSE [res |-> "Ok",
                   game |-> Some([options |-> options, board |-> parsed.board])]

\* ThreePlayerChessGame::create
create(init_info) ==
    IF init_info.kind = "Standard" /\ init_info.legacy # None
    THEN [res |-> "InvalidLegacy", game |-> None]
    ELSE IF init_info.kind = "Serialized"
    THEN [res |-> "FeatureUnsupported", game |-> None]
    ELSE LET options == IF init_info.opts = None THEN "GameOptions"
                        ELSE GameOptions_new(init_info.opts[1])
             parsed == IF init_info.state = None
                       THEN [ok |-> TRUE, board |-> default_board]
                       ELSE from_str(init_info.state[1])
         IN  IF ~parsed.ok THEN [res |-> "InvalidState", game |-> None]
             ELSE [res |-> "Ok",
                   game |-> Some([options |-> options, board |-> parsed.board])]

\* ThreePlayerChessGame::copy_from (the debug assertion compares two values
\* of the field-less GameOptions and cannot fail)
copy_from(g, other) ==
    [res |-> "Ok", game |-> [g EXCEPT !.board = other.board], out |-> <<>>]

import_state_resets_on_error(g, state_str) ==
    IF state_str = None
    THEN [res |-> "Ok", game |-> [g EXCEPT !.board = default_board], out |-> <<>>]
    ELSE LET parsed == from_str(state_str[1])
         IN  IF parsed.ok
             THEN [res |-> "Ok", game |-> [g EXCEPT !.board = parsed.board],
                   out |-> <<>>]
             ELSE [res |-> "InvalidState",
                   game |-> [g EXCEPT !.board = default_board], out |-> <<>>]

\* ThreePlayerChessGame::import_state
import_state(g, state_str) ==
    IF state_str = None
    THEN [res |-> "Ok", game |-> [g EXCEPT !.board = default_board], out |-> <<>>]
    ELSE LET parsed == from_str(state_str[1])
         IN  IF parsed.ok
             THEN [res |-> "Ok", game |-> [g EXCEPT !.board = parsed.board],
                   out |-> <<>>]
             ELSE [res |-> "InvalidState", game |-> g, out |-> <<>>]

export_state_without_counter(g) ==
    [res |-> "Ok", game |-> g, out |-> <<g.board.pos, g.board.turn, 0>>]

\* ThreePlayerChessGame::export_state
export_state(g) ==
    [res |-> "Ok", game |-> g, out |-> state_string(g.board)]

players_to_move_any_status(g) ==
    [res |-> "Ok", game |-> g, out |-> <<player_to_id(g.board.turn)>>]

\* ThreePlayerChessGame::players_to_move
players_to_move(g) ==
    [res |-> "Ok", game |-> g,
     out |-> IF g.board.game_status = Ongoing
             THEN <<player_to_id(g.board.turn)>> ELSE <<>>]

\* ThreePlayerChessGame::get_concrete_moves
get_concrete_moves(g, player) ==
    LET p == player_from_id(player)
    IN  IF p = None THEN [res |-> "Panic", game |-> g, out |-> <<>>]
        ELSE IF p[1] = g.board.turn
        THEN LET ms == gen_moves(g.board)
             IN  [res |-> "Ok", game |-> g,
                  out |-> [i \in 1 .. Len(ms) |-> move_into(ms[i])]]
        ELSE [res |-> "Ok", game |-> g, out |-> <<>>]

\* ThreePlayerChessGame::get_move_str
get_move_str(g, player, mov) ==
    LET tpc_move == move_try_from(mov)
    IN  IF tpc_move = None THEN [res |-> "Panic", game |-> g, out |-> <<>>]
        ELSE [res |-> "Ok", game |-> g,
              out |-> move_to_string(g.board, tpc_move[1])]

make_move_any_player(g, player, mov) ==
    LET p == player_from_id(player)
        tpc_move == move_try_from(mov)
    IN  IF p = None \/ tpc_move = None THEN [res |-> "Panic", game |-> g, out |-> <<>>]
        ELSE [res |-> "Ok",
              game |-> [g EXCEPT !.board = perform_move(g.board, tpc_move[1])],
              out |-> <<>>]

\* ThreePlayerChessGame::make_move
make_move(g, player, mov) ==
    LET p == player_from_id(player)
        tpc_move == move_try_from(mov)
    IN  IF p = None \/ p[1] # g.board.turn
        THEN [res |-> "Panic", game |-> g, out |-> <<>>]
        ELSE IF tpc_move = None
        THEN [res |-> "Panic", game |-> g, out |-> <<>>]
        ELSE IF ~is_valid_move(g.board, tpc_move[1])
        THEN [res |-> "Panic", game |-> g, out |-> <<>>]
        ELSE [res |-> "Ok",
              game |-> [g EXCEPT !.board = perform_move(g.board, tpc_move[1])],
              out |-> <<>>]

get_results_draw_everyone(g) ==
    [res |-> "Ok", game |-> g,
     out |-> IF g.board.game_status[1] = "Win"
             THEN <<player_to_id(g.board.game_status[2])>>
             ELSE IF g.board.game_status = Draw
             THEN [i \in 1 .. HB_COUNT |-> i]
             ELSE <<>>]

\* ThreePlayerChessGame::get_results
get_results(g) ==
    [res |-> "Ok", game |-> g,
     out |-> IF g.board.game_status[1] = "Win"
             THEN <<player_to_id(g.board.game_status[2])>> ELSE <<>>]

is_legal_move_decodes_only(g, player, mov) ==
    LET p == player_from_id(player)
        tpc_move == move_try_from(mov)
    IN  IF p = None THEN [res |-> "Panic", game |-> g, out |-> <<>>]
        ELSE IF g.board.turn # p[1]
        THEN [res |-> "InvalidInput", game |-> g, out |-> <<>>]
        ELSE IF tpc_move = None
        THEN [res |-> "InvalidInput", game |-> g, out |-> <<>>]
        ELSE [res |-> "Ok", game |-> g, out |-> <<>>]

is_legal_move_any_turn(g, player, mov) ==
    LET p == player_from_id(player)
        tpc_move == move_try_from(mov)
    IN  IF p = None THEN [res |-> "Panic", game |-> g, out |-> <<>>]
        ELSE IF tpc_move = None \/ ~is_valid_move(g.board, tpc_move[1])
        THEN [res |-> "InvalidInput", game |-> g, out |-> <<>>]
        ELSE [res |-> "Ok", game |-> g, out |-> <<>>]

\* ThreePlayerChessGame::is_legal_move
is_legal_move(g, player, mov) ==
    LET p == player_from_id(player)
        tpc_move == move_try_from(mov)
    IN  IF p = None THEN [res |-> "Panic", game |-> g, out |-> <<>>]
        ELSE IF g.board.turn # p[1]
        THEN [res |-> "InvalidInput", game |-> g, out |-> <<>>]
        ELSE IF tpc_move = None
        THEN [res |-> "InvalidInput", game |-> g, out |-> <<>>]
        ELSE IF ~is_valid_move(g.board, tpc_move[1])
        THEN [res |-> "InvalidInput", game |-> g, out |-> <<>>]
        ELSE [res |-> "Ok", game |-> g, out |-> <<>>]

\* ------------------------------------------------- interaction surface
\* screen squares the cursor can be over
Squares == {0, 1}

\* three_player_chess_frontend::Frontend::new, with MirabelFrontend's own
\* disabled flag and the outbox the host hands to every call
Frontend_new ==
    [board |-> default_board, history |-> <<>>, cursor_pos |-> 0,
     dragged_square |-> None, hovered_square |-> None]

\* Frontend::reset
reset(mf) ==
    [mf EXCEPT !.board = default_board, !.history = <<>>,
               !.dragged_square = None, !.hovered_square = None]

\* Frontend::reset_effects
reset_effects(mf) ==
    [mf EXCEPT !.dragged_square = None, !.hovered_square = None]

\* Frontend: a completed gesture performs the move and logs it in history
apply_move_with_history(mf, m) ==
    [mf EXCEPT !.history = Append(@, reversable_move(mf.board, m)),
               !.board = perform_move(@, m)]

RECURSIVE record_moves(_, _)
record_moves(mf, burst) ==
    IF Len(burst) = 0 THEN mf
    ELSE record_moves(apply_move_with_history(mf, Head(burst)), Tail(burst))

\* Frontend::undo_move
undo_move(mf) ==
    IF mf.history = <<>> THEN mf
    ELSE [mf EXCEPT !.board = revert_move(@, mf.history[Len(mf.history)]),
                    !.history = SubSeq(@, 1, Len(@) - 1)]

RECURSIVE undo_moves(_, _)
undo_moves(mf, n) == IF n = 0 THEN mf ELSE undo_moves(undo_move(mf), n - 1)

\* Frontend::mouse_moved
mouse_moved(mf, pos) == [mf EXCEPT !.cursor_pos = pos]

\* Frontend::mouse_clicked: the secondary button cancels a drag; the primary
\* one picks a square up, or completes the moves of a click-to-move gesture
mouse_clicked(mf, right, burst) ==
    IF right THEN reset_effects(mf)
    ELSE IF mf.dragged_square = None
    THEN [mf EXCEPT !.dragged_square = Some(mf.cursor_pos)]
    ELSE reset_effects(record_moves(mf, burst))

\* Frontend::mouse_released: dropping a dragged piece on another square
\* completes the moves of the drag gesture
mouse_released(mf, right, burst) ==
    IF right \/ mf.dragged_square = None THEN mf
    ELSE IF mf.dragged_square[1] = mf.cursor_pos THEN mf
    ELSE reset_effects(record_moves(mf, burst))

\* the lines of moves the surface can complete on board b: each one valid
RECURSIVE valid_line(_, _)
valid_line(b, burst) ==
    \/ Len(burst) = 0
    \/ /\ Len(burst) > 0
       /\ is_valid_move(b, Head(burst))
       /\ valid_line(perform_move(b, Head(burst)), Tail(burst))

Bursts == UNION {[1 .. n -> Moves] : n \in 0 .. MaxBurst}

\* only a button event reaches the part of the surface that completes moves
reaches_gesture(event) == event.kind \in {"MouseButtonDown", "MouseButtonUp"}

\* ------------------------------------------------------------ frontend.rs
\* MirabelFrontend::create
MirabelFrontend_create ==
    [board |-> Frontend_new.board, history |-> Frontend_new.history,
     cursor_pos |-> Frontend_new.cursor_pos,
     dragged_square |-> Frontend_new.dragged_square,
     hovered_square |-> Frontend_new.hovered_square,
     disabled |-> TRUE, outbox |-> <<>>]

\* mirabel::EventEnum
EventLoad(info) ==
    [kind |-> "GameLoadMethods", init_info |-> info, state |-> None, code |-> 0]
EventUnload ==
    [kind |-> "GameUnload", init_info |-> InitDefault, state |-> None, code |-> 0]
EventState(s) ==
    [kind |-> "GameState", init_info |-> InitDefault, state |-> s, code |-> 0]
EventMove(c) ==
    [kind |-> "GameMove", init_info |-> InitDefault, state |-> None, code |-> c]
EventOther ==
    [kind |-> "Other", init_info |-> InitDefault, state |-> None, code |-> 0]
Events ==
    {EventLoad(info) : info \in InitInfos} \cup {EventUnload, EventOther} \cup
    {EventState(s) : s \in {None} \cup {Some(x) : x \in StateStrs}} \cup
    {EventMove(c) : c \in Codes}

process_event_load_resets_first(mf, event) ==
    LET r == create(event.init_info)
    IN  IF r.res # "Ok" THEN [res |-> r.res, mf |-> reset(mf)]
        ELSE [res |-> "Ok",
              mf |-> [reset(mf) EXCEPT !.board = r.game[1].board,
                                       !.disabled = FALSE]]

\* process_event, lines 72-79: the GameLoadMethods arm
process_event_load(mf, event) ==
    LET r == create(event.init_info)
    IN  IF r.res # "Ok" THEN [res |-> r.res, mf |-> mf]
        ELSE [res |-> "Ok",
              mf |-> [reset(mf) EXCEPT !.board = r.game[1].board,
                                       !.disabled = FALSE]]

process_event_unload_resets(mf, event) ==
    [res |-> "Ok", mf |-> [reset(mf) EXCEPT !.disabled = TRUE]]

\* process_event, lines 80-82: the GameUnload arm
process_event_unload(mf, event) ==
    [res |-> "Ok", mf |-> [mf EXCEPT !.disabled = TRUE]]

process_event_state_always_enables(mf, event) ==
    IF event.state = None
    THEN [res |-> "Ok", mf |-> [mf EXCEPT !.disabled = FALSE]]
    ELSE LET parsed == from_str(event.state[1])
         IN  IF ~parsed.ok THEN [res |-> "InvalidState", mf |-> mf]
             ELSE [res |-> "Ok",
                   mf |-> [mf EXCEPT !.board = parsed.board,
                                     !.disabled = FALSE]]

process_event_state_enables_first(mf, event) ==
    IF event.state = None THEN [res |-> "Ok", mf |-> mf]
    ELSE LET parsed == from_str(event.state[1])
         IN  IF ~parsed.ok
             THEN [res |-> "InvalidState", mf |-> [mf EXCEPT !.disabled = FALSE]]
             ELSE [res |-> "Ok",
                   mf |-> [mf EXCEPT !.board = parsed.board,
                                     !.disabled = FALSE]]

\* process_event, lines 83-90: the GameState arm
process_event_state(mf, event) ==
    IF event.state = None THEN [res |-> "Ok", mf |-> mf]
    ELSE LET parsed == from_str(event.state[1])
         IN  IF ~parsed.ok THEN [res |-> "InvalidState", mf |-> mf]
             ELSE [res |-> "Ok",
                   mf |-> [mf EXCEPT !.board = parsed.board,
                                     !.disabled = FALSE]]

\* process_event, lines 91-97: the GameMove arm
process_event_move(mf, event) ==
    LET tpc_mov == move_try_from(event.code)
    IN  IF tpc_mov = None THEN [res |-> "InvalidMove", mf |-> mf]
        ELSE [res |-> "Ok",
              mf |-> reset_effects(
                       [mf EXCEPT !.board = perform_move(@, tpc_mov[1])])]

\* MirabelFrontend::process_event
process_event(mf, event) ==
    CASE event.kind = "GameLoadMethods" -> process_event_load(mf, event)
      [] event.kind = "GameUnload" -> process_event_unload(mf, event)
      [] event.kind = "GameState" -> process_event_state(mf, event)
      [] event.kind = "GameMove" -> process_event_move(mf, event)
      [] OTHER -> [res |-> "Ok", mf |-> mf]

\* mirabel::SDLEventEnum
PointerEvents ==
    [kind : {"MouseMotion"}, pos : Squares, button : {0}] \cup
    [kind : {"MouseButtonDown", "MouseButtonUp"},
     pos : Squares, button : {SDL_BUTTON_LEFT, 2, SDL_BUTTON_RIGHT}] \cup
    [kind : {"Other"}, pos : {0}, button : {0}]

\* process_input, lines 118-141: the match that forwards the pointer event
forward_input(mf, event, burst) ==
    CASE event.kind = "MouseMotion" -> mouse_moved(mf, event.pos)
      [] event.kind = "MouseButtonDown" ->
           LET moved == mouse_moved(mf, event.pos)
           IN  IF event.button = SDL_BUTTON_LEFT
               THEN mouse_clicked(moved, FALSE, burst)
               ELSE IF event.button = SDL_BUTTON_RIGHT
               THEN mouse_clicked(moved, TRUE, burst)
               ELSE moved
      [] event.kind = "MouseButtonUp" ->
           LET moved == mouse_moved(mf, event.pos)
           IN  IF event.button = SDL_BUTTON_LEFT
               THEN mouse_released(moved, FALSE, burst)
               ELSE IF event.button = SDL_BUTTON_RIGHT
               THEN mouse_released(moved, TRUE, burst)
               ELSE moved
      [] OTHER -> mf

\* process_input, lines 145-157: one outbox event per new history entry
report_moves(history, history_len, current_turn) ==
    [i \in 1 .. Len(history) - history_len |->
        [player |-> player_to_id(next_n(current_turn, i - 1)),
         code |-> move_into(history[history_len + i].mov)]]

process_input_single_undo(mf, event, burst) ==
    IF mf.disabled
    THEN [res |-> "Ok", mf |-> mf, forwarded |-> FALSE, recorded |-> <<>>,
          undos |-> 0]
    ELSE LET history_len == Len(mf.history)
             current_turn == mf.board.turn
             played == forward_input(mf, event, burst)
             history_idx == Len(played.history)
             reported == [played EXCEPT !.outbox =
                            @ \o report_moves(played.history, history_len,
                                              current_turn)]
             undone == IF history_idx > history_len THEN 1 ELSE 0
         IN  [res |-> "Ok",
              mf |-> undo_moves(reported, undone),
              forwarded |-> TRUE,
              recorded |-> [i \in 1 .. history_idx - history_len |->
                              played.history[history_len + i].mov],
              undos |-> undone]

process_input_no_rollback(mf, event, burst) ==
    IF mf.disabled
    THEN [res |-> "Ok", mf |-> mf, forwarded |-> FALSE, recorded |-> <<>>,
          undos |-> 0]
    ELSE LET history_len == Len(mf.history)
             current_turn == mf.board.turn
             played == forward_input(mf, event, burst)
             reported == [played EXCEPT !.outbox =
                            @ \o report_moves(played.history, history_len,
                                              current_turn)]
         IN  [res |-> "Ok", mf |-> reported, forwarded |-> TRUE,
              recorded |-> [i \in 1 .. Len(played.history) - history_len |->
                              played.history[history_len + i].mov],
              undos |-> 0]

process_input_engine_turn(mf, event, burst) ==
    IF mf.disabled
    THEN [res |-> "Ok", mf |-> mf, forwarded |-> FALSE, recorded |-> <<>>,
          undos |-> 0]
    ELSE LET history_len == Len(mf.history)
             played == forward_input(mf, event, burst)
             history_idx == Len(played.history)
             reported == [played EXCEPT !.outbox =
                            @ \o [i \in 1 .. history_idx - history_len |->
                                   [player |-> player_to_id(played.board.turn),
                                    code |-> move_into(
                                       played.history[history_len + i].mov)]]]
         IN  [res |-> "Ok",
              mf |-> undo_moves(reported, history_idx - history_len),
              forwarded |-> TRUE,
              recorded |-> [i \in 1 .. history_idx - history_len |->
                              played.history[history_len + i].mov],
              undos |-> history_idx - history_len]

process_input_while_disabled(mf, event, burst) ==
    LET history_len == Len(mf.history)
        current_turn == mf.board.turn
        played == forward_input(mf, event, burst)
        history_idx == Len(played.history)
        reported == [played EXCEPT !.outbox =
                       @ \o report_moves(played.history, history_len,
                                         current_turn)]
    IN  [res |-> "Ok",
         mf |-> undo_moves(reported, history_idx - history_len),
         forwarded |-> TRUE,
         recorded |-> [i \in 1 .. history_idx - history_len |->
                         played.history[history_len + i].mov],
         undos |-> history_idx - history_len]

\* MirabelFrontend::process_input
process_input(mf, event, burst) ==
    IF mf.disabled
    THEN [res |-> "Ok", mf |-> mf, forwarded |-> FALSE, recorded |-> <<>>,
          undos |-> 0]
    ELSE LET history_len == Len(mf.history)
             current_turn == mf.board.turn
             played == forward_input(mf, event, burst)
             history_idx == Len(played.history)
             reported == [played EXCEPT !.outbox =
                            @ \o report_moves(played.history, history_len,
                                              current_turn)]
         IN  [res |-> "Ok",
              mf |-> undo_moves(reported, history_idx - history_len),
              forwarded |-> TRUE,
              recorded |-> [i \in 1 .. history_idx - history_len |->
                              played.history[history_len + i].mov],
              undos |-> history_idx - history_len]

\* MirabelFrontend::update
update(mf) == [res |-> "Ok", mf |-> mf]

\* MirabelFrontend::render: the state it writes (canvas calls left out)
render(mf) ==
    IF mf.disabled THEN [res |-> "Ok", mf |-> mf]
    ELSE [res |-> "Ok",
          mf |-> [mf EXCEPT !.hovered_square =
                    IF mf.dragged_square # None
                       /\ mf.dragged_square[1] # mf.cursor_pos
                    THEN Some(mf.cursor_pos) ELSE None]]

\* ------------------------------------------------------------ the calls
\* What is remembered of the last Game Adapter call: the operation, its
\* arguments (player, code; arg for an init info, a state string or another
\* instance), its result and output, and the game before the call.
GameCall(op, player, code, res, out, before) ==
    [op |-> op, player |-> player, code |-> code, arg |-> None, res |-> res,
     out |-> out, before |-> before]

GameCallArg(op, arg, res, out, before) ==
    [GameCall(op, 0, 0, res, out, before) EXCEPT !.arg = Some(arg)]

\* What is remembered of the last Interaction Adapter call: the event, the
\* result, the moves the surface recorded, the undos performed, and the board
\* an event names (named), whether a game is loaded (the last of GameUnload,
\* successful GameLoadMethods and successful GameState with a state string),
\* and the board the GameUnload of a loaded game left behind (stale: None
\* once a GameLoadMethods or GameState event arrives).
FrontendCall(op, kind, r, named, loaded, stale) ==
    [op |-> op, kind |-> kind, res |-> r.res,
     forwarded |-> r.forwarded, recorded |-> r.recorded, undos |-> r.undos,
     named |-> named, loaded |-> loaded, stale |-> stale]

NoInput(r) ==
    [res |-> r.res, mf |-> r.mf, forwarded |-> FALSE, recorded |-> <<>>,
     undos |-> 0]

IdleGame == [options |-> "GameOptions", board |-> default_board]
IdleGameCall == GameCall("none", 0, 0, "Ok", <<>>, IdleGame)
IdleFrontendCall ==
    FrontendCall("create", "",
                 NoInput([res |-> "Ok", mf |-> MirabelFrontend_create]),
                 None, FALSE, None)

Running == game_call.res # "Panic"

\* ------------------------------------------- Interaction Adapter, any host
Init ==
    /\ guard_finished \in BOOLEAN
    /\ frontend = MirabelFrontend_create
    /\ frontend_call = IdleFrontendCall
    /\ game = IdleGame
    /\ game_call = IdleGameCall
    /\ inbox = <<>>

StaleAfter(event, r) ==
    IF event.kind = "GameUnload"
    THEN IF frontend_call.loaded THEN Some(r.mf.board) ELSE frontend_call.stale
    ELSE IF event.kind \in {"GameLoadMethods", "GameState"} THEN None
    ELSE frontend_call.stale

\* the position a GameLoadMethods or GameState event names, if it names one
Named(event) ==
    IF event.kind = "GameLoadMethods" /\ create(event.init_info).res = "Ok"
    THEN Some(create(event.init_info).game[1].board)
    ELSE IF /\ event.kind = "GameState"
            /\ event.state # None
            /\ from_str(event.state[1]).ok
    THEN Some(from_str(event.state[1]).board)
    ELSE None

LoadedAfter(event, r) ==
    IF event.kind = "GameUnload" THEN FALSE
    ELSE IF event.kind = "GameLoadMethods" /\ r.res = "Ok" THEN TRUE
    ELSE IF event.kind = "GameState" /\ event.state # None /\ r.res = "Ok"
    THEN TRUE
    ELSE frontend_call.loaded

ProcessEvent ==
    \E event \in Events :
        /\ event.kind = "GameMove" => frontend.board.move_index < MaxPly
        /\ LET r == process_event(frontend, event)
           IN  /\ frontend' = r.mf
               /\ frontend_call' =
                    FrontendCall("process_event", event.kind, NoInput(r),
                                 Named(event), LoadedAfter(event, r),
                                 StaleAfter(event, r))
        /\ UNCHANGED <<game, game_call, inbox, guard_finished>>

ProcessInput ==
    /\ frontend.outbox = <<>>
    /\ \E event \in PointerEvents, burst \in Bursts :
        /\ Len(burst) > 0 => reaches_gesture(event)
        /\ valid_line(frontend.board, burst)
        /\ LET r == process_input(frontend, event, burst)
           IN  /\ frontend' = r.mf
               /\ frontend_call' =
                    FrontendCall("process_input", event.kind, r, None,
                                 frontend_call.loaded, frontend_call.stale)
    /\ UNCHANGED <<game, game_call, inbox, guard_finished>>

Update ==
    /\ LET r == update(frontend)
       IN  /\ frontend' = r.mf
           /\ frontend_call' =
                FrontendCall("update", "", NoInput(r), None,
                             frontend_call.loaded, frontend_call.stale)
    /\ UNCHANGED <<game, game_call, inbox, guard_finished>>

Render ==
    /\ LET r == render(frontend)
       IN  /\ frontend' = r.mf
           /\ frontend_call' =
                FrontendCall("render", "", NoInput(r), None,
                             frontend_call.loaded, frontend_call.stale)
    /\ UNCHANGED <<game, game_call, inbox, guard_finished>>

\* the host takes the outbox's events after process_input returns
DrainOutbox ==
    /\ frontend.outbox # <<>>
    /\ frontend' = [frontend EXCEPT !.outbox = <<>>]
    /\ frontend_call' =
         FrontendCall("drain", "",
                      NoInput([res |-> "Ok", mf |-> frontend]), None,
                      frontend_call.loaded, frontend_call.stale)
    /\ UNCHANGED <<game, game_call, inbox, guard_finished>>

Next == ProcessEvent \/ ProcessInput \/ Update \/ Render \/ DrainOutbox

Spec == Init /\ [][Next]_vars

\* ------------------------------------------------- Game Adapter, any host
GameInit ==
    /\ guard_finished \in BOOLEAN
    /\ \E init_info \in InitInfos :
        /\ create(init_info).res = "Ok"
        /\ game = create(init_info).game[1]
        /\ game_call = GameCallArg("create", init_info, "Ok", <<>>, game)
    /\ frontend = MirabelFrontend_create
    /\ frontend_call = IdleFrontendCall
    /\ inbox = <<>>

GameFrame == UNCHANGED <<frontend, frontend_call, inbox, guard_finished>>

Create ==
    /\ Running
    /\ \E init_info \in InitInfos :
        LET r == create(init_info)
        IN  /\ game' = IF r.res = "Ok" THEN r.game[1] ELSE game
            /\ game_call' = GameCallArg("create", init_info, r.res, <<>>, game)
    /\ GameFrame

ImportState ==
    /\ Running
    /\ \E s \in {None} \cup {Some(x) : x \in StateStrs} :
        LET r == import_state(game, s)
        IN  /\ game' = r.game
            /\ game_call' = GameCallArg("import_state", s, r.res, <<>>, game)
    /\ GameFrame

\* the games another instance of the adapter can hold: created ones, advanced
\* by valid moves
RECURSIVE advanced(_, _)
advanced(games, n) ==
    IF n = 0 THEN games
    ELSE advanced(games \cup
                  {[g EXCEPT !.board = perform_move(g.board, m)] :
                     <<g, m>> \in {gm \in games \X Moves :
                                     is_valid_move(gm[1].board, gm[2])}},
                  n - 1)

OtherGames ==
    advanced({create(info).game[1] :
                info \in {i \in InitInfos : create(i).res = "Ok"}}, Goal)

CopyFrom ==
    /\ Running
    /\ \E other \in OtherGames :
        LET r == copy_from(game, other)
        IN  /\ game' = r.game
            /\ game_call' = GameCallArg("copy_from", other, r.res, <<>>, game)
    /\ GameFrame

ExportState ==
    /\ Running
    /\ LET r == export_state(game)
       IN  /\ game' = r.game
           /\ game_call' = GameCall("export_state", 0, 0, r.res, r.out, game)
    /\ GameFrame

PlayersToMove ==
    /\ Running
    /\ LET r == players_to_move(game)
       IN  /\ game' = r.game
           /\ game_call' = GameCall("players_to_move", 0, 0, r.res, r.out, game)
    /\ GameFrame

GetMoveStr ==
    /\ Running
    /\ \E player \in PlayerIds, mov \in Codes :
        LET r == get_move_str(game, player, mov)
        IN  /\ game' = r.game
            /\ game_call' =
                 GameCall("get_move_str", player, mov, r.res, r.out, game)
    /\ GameFrame

GetConcreteMoves ==
    /\ Running
    /\ \E player \in PlayerIds :
        LET r == get_concrete_moves(game, player)
        IN  /\ game' = r.game
            /\ game_call' =
                 GameCall("get_concrete_moves", player, 0, r.res, r.out, game)
    /\ GameFrame

MakeMove ==
    /\ Running
    /\ \E player \in PlayerIds, mov \in Codes :
        LET r == make_move(game, player, mov)
        IN  /\ game' = r.game
            /\ game_call' = GameCall("make_move", player, mov, r.res, r.out, game)
    /\ GameFrame

GetResults ==
    /\ Running
    /\ LET r == get_results(game)
       IN  /\ game' = r.game
           /\ game_call' = GameCall("get_results", 0, 0, r.res, r.out, game)
    /\ GameFrame

IsLegalMove ==
    /\ Running
    /\ \E player \in PlayerIds, mov \in Codes :
        LET r == is_legal_move(game, player, mov)
        IN  /\ game' = r.game
            /\ game_call' =
                 GameCall("is_legal_move", player, mov, r.res, r.out, game)
    /\ GameFrame

GameNext ==
    \/ Create \/ CopyFrom \/ ImportState \/ ExportState \/ PlayersToMove
    \/ GetConcreteMoves \/ GetMoveStr \/ MakeMove \/ GetResults
    \/ IsLegalMove

GameSpec == GameInit /\ [][GameNext]_vars

\* ------------------------------- host and Interaction Adapter side by side
SyncInit ==
    /\ guard_finished \in BOOLEAN
    /\ \E init_info \in InitInfos :
        /\ create(init_info).res = "Ok"
        /\ game = create(init_info).game[1]
        /\ frontend =
             process_event(MirabelFrontend_create, EventLoad(init_info)).mf
    /\ game_call = IdleGameCall
    /\ frontend_call = IdleFrontendCall
    /\ inbox = <<>>

SyncFrame == UNCHANGED <<game_call, frontend_call, guard_finished>>

\* a pointer event arrives; the host has drained the previous outbox
SyncInput ==
    /\ frontend.outbox = <<>>
    /\ \E event \in PointerEvents, burst \in Bursts :
        /\ Len(burst) > 0 => reaches_gesture(event)
        /\ valid_line(frontend.board, burst)
        /\ frontend' = process_input(frontend, event, burst).mf
    /\ UNCHANGED <<game, inbox>>
    /\ SyncFrame

\* the host checks the next proposed move, finds it legal, makes it and
\* queues the GameMove event
HostAccept ==
    /\ frontend.outbox # <<>>
    /\ LET proposed == Head(frontend.outbox)
       IN  /\ is_legal_move(game, proposed.player, proposed.code).res = "Ok"
           /\ game' = make_move(game, proposed.player, proposed.code).game
           /\ game_call' = GameCall("make_move", proposed.player,
                                    proposed.code, "Ok", <<>>, game)
           /\ inbox' = Append(inbox, proposed.code)
    /\ frontend' = [frontend EXCEPT !.outbox = Tail(@)]
    /\ UNCHANGED <<frontend_call, guard_finished>>

\* the host checks the next proposed move and drops it
HostReject ==
    /\ frontend.outbox # <<>>
    /\ LET proposed == Head(frontend.outbox)
       IN  /\ is_legal_move(game, proposed.player, proposed.code).res # "Ok"
           /\ game_call' =
                GameCall("is_legal_move", proposed.player, proposed.code,
                         is_legal_move(game, proposed.player,
                                       proposed.code).res, <<>>, game)
    /\ frontend' = [frontend EXCEPT !.outbox = Tail(@)]
    /\ UNCHANGED <<game, inbox, frontend_call, guard_finished>>

\* another participant's legal move reaches the host first
HostOtherMove ==
    /\ \E player \in PlayerIds, mov \in Codes :
        /\ is_legal_move(game, player, mov).res = "Ok"
        /\ game' = make_move(game, player, mov).game
        /\ inbox' = Append(inbox, mov)
    /\ UNCHANGED frontend
    /\ SyncFrame

\* the host pushes the next confirmed move to the Interaction Adapter
DeliverMove ==
    /\ inbox # <<>>
    /\ frontend' = process_event(frontend, EventMove(Head(inbox))).mf
    /\ inbox' = Tail(inbox)
    /\ UNCHANGED game
    /\ SyncFrame

SyncNext ==
    SyncInput \/ HostAccept \/ HostReject \/ HostOtherMove \/ DeliverMove

SyncSpec == SyncInit /\ [][SyncNext]_vars

\* ================================================================ claims
\* the move events process_input owes the host for the moves it recorded
owed_events(recorded, turn_before) ==
    [i \in 1 .. Len(recorded) |->
        [player |-> player_to_id(next_n(turn_before, i - 1)),
         code |-> move_into(recorded[i])]]

\* C1: a process_input call on an enabled adapter whose pointer event makes
\* the surface record k >= 0 moves performs exactly k undos, and leaves the
\* local board and the length of localHistory as they were before the call.
C1_RollbackRestoresBoard ==
    [][(frontend_call'.op = "process_input" /\ ~frontend.disabled)
        => /\ frontend_call'.forwarded
           /\ frontend_call'.undos = Len(frontend_call'.recorded)
           /\ frontend'.board = frontend.board
           /\ Len(frontend'.history) = Len(frontend.history)]_vars

\* C1 happens: a pointer event recorded two moves and both were undone.
C1_Witness ==
    /\ frontend_call.op = "process_input"
    /\ frontend_call.forwarded
    /\ Len(frontend_call.recorded) = 2
    /\ frontend_call.undos = 2
    /\ frontend.history = <<>>

\* C2: a process_input call that recorded k moves appends exactly k move
\* events to the outbox, in recording order; the i-th carries the i-th
\* recorded move's code and as mover the id of next-player applied i times
\* to the turn read before the event was forwarded.
C2_OutboxReportsEachMove ==
    [][frontend_call'.op = "process_input"
        => frontend'.outbox =
             frontend.outbox \o owed_events(frontend_call'.recorded,
                                            frontend.board.turn)]_vars

\* C2 happens: two moves were reported, for two different movers.
C2_Witness ==
    /\ frontend_call.op = "process_input"
    /\ Len(frontend_call.recorded) = 2
    /\ Len(frontend.outbox) = 2
    /\ frontend.outbox[1].player # frontend.outbox[2].player
    /\ frontend.outbox[2].player =
         player_to_id(next(player_from_id(frontend.outbox[1].player)[1]))

\* C3: the local board changes only in a process_event call: a GameMove
\* event advances it by the one decoded move, a GameLoadMethods or GameState
\* event replaces it by the position the event names; process_input,
\* GameUnload, unrecognized events, update and render leave it as it was.
C3_OnlyGameMoveAdvances ==
    [][frontend'.board # frontend.board
        => /\ frontend_call'.op = "process_event"
           /\ frontend_call'.res = "Ok"
           /\ \/ /\ frontend_call'.kind = "GameMove"
                 /\ \E m \in Moves :
                      frontend'.board = perform_move(frontend.board, m)
              \/ /\ frontend_call'.kind \in {"GameLoadMethods", "GameState"}
                 /\ frontend_call'.named # None
                 /\ frontend'.board = frontend_call'.named[1]]_vars

\* C3 happens: a GameMove event has advanced a loaded board by a move.
C3_Witness ==
    /\ frontend_call.op = "process_event"
    /\ frontend_call.kind = "GameMove"
    /\ frontend_call.res = "Ok"
    /\ frontend_call.loaded
    /\ frontend.board.move_index = 2

\* the local board once the host's pending confirmed moves are applied
RECURSIVE replay(_, _)
replay(b, codes) ==
    IF Len(codes) = 0 THEN b
    ELSE replay(perform_move(b, move_try_from(Head(codes))[1]), Tail(codes))

\* C4: host and Interaction Adapter loaded from the same initInfo, the host
\* accepting or rejecting each proposed move: whenever the outbox is drained
\* and every GameMove event is delivered the two boards are equal (and at
\* any time the local board plus the undelivered moves is the host's board).
C4_BoardsAgree ==
    /\ replay(frontend.board, inbox) = game.board
    /\ (frontend.outbox = <<>> /\ inbox = <<>>) => frontend.board = game.board

\* C4 happens: a proposal was accepted and delivered, both boards moved once.
C4_Witness ==
    /\ game_call.op = "make_move"
    /\ frontend.outbox = <<>>
    /\ inbox = <<>>
    /\ frontend.board = game.board
    /\ game.board.move_index = game_call.before.board.move_index + 1
    /\ frontend.board # game_call.before.board

\* C5: disabled is true exactly when no game is loaded: true after create
\* and after a GameUnload, false after a successful GameLoadMethods event or
\* a successful GameState event carrying a state string; no other call
\* changes it.
C5_DisabledIffUnloaded == frontend.disabled = ~frontend_call.loaded

\* C5 happens: a loaded, advanced adapter has been unloaded.
C5_Witness ==
    /\ frontend_call.op = "process_event"
    /\ frontend_call.kind = "GameUnload"
    /\ frontend.disabled
    /\ frontend.board.move_index > 0

\* C6: while disabled, process_input does not forward the pointer event and
\* leaves board, localHistory and outbox (the whole adapter) unchanged; the
\* outbox stays empty.
C6_DisabledInputIsNoOp ==
    [][(frontend_call'.op = "process_input" /\ frontend.disabled)
        => /\ ~frontend_call'.forwarded
           /\ frontend' = frontend
           /\ frontend'.outbox = <<>>]_vars

\* C6 happens: a pointer event arrived after a GameUnload.
C6_Witness ==
    /\ frontend_call.op = "process_input"
    /\ frontend_call.kind = "MouseButtonUp"
    /\ frontend.disabled
    /\ frontend_call.stale # None
    /\ ~frontend_call.forwarded

\* C7: from a GameUnload event until the next GameLoadMethods or GameState
\* event, whatever events and inputs arrive (GameMove included), the local
\* board stays equal to its value at the unload.
C7_StaleBoardInert ==
    frontend_call.stale # None => frontend.board = frontend_call.stale[1]

\* the members of a sequence
Range(s) == {s[i] : i \in 1 .. Len(s)}

\* C8: for every valid player id p and every code c, is_legal_move(p, c)
\* succeeds iff c is among get_concrete_moves(p); for a player whose turn it
\* is not, get_concrete_moves is empty without error and is_legal_move is
\* InvalidInput; neither changes the board.
C8_LegalIffListed ==
    \A p \in 1 .. HB_COUNT, c \in Codes :
        LET legal == is_legal_move(game, p, c)
            listed == get_concrete_moves(game, p)
        IN  /\ (legal.res = "Ok") <=> (c \in Range(listed.out))
            /\ legal.res \in {"Ok", "InvalidInput"}
            /\ listed.res = "Ok"
            /\ player_from_id(p)[1] # game.board.turn
                 => listed.out = <<>> /\ legal.res = "InvalidInput"
            /\ legal.game = game
            /\ listed.game = game

\* C8 happens: a legal move was just confirmed in a position where the other
\* decodable move is illegal.
C8_Witness ==
    /\ game_call.op = "is_legal_move"
    /\ game_call.res = "Ok"
    /\ Len(get_concrete_moves(game, game_call.player).out) = 1
    /\ game.board.pos = Goal - 1

\* C9: after a make_move(p, c) that completes, players_to_move() returns the
\* empty set or a singleton {q} with q # p.
C9_MoverNotToMove ==
    (game_call.op = "make_move" /\ game_call.res = "Ok")
        => LET to_move == players_to_move(game).out
           IN  \/ to_move = <<>>
               \/ Len(to_move) = 1 /\ to_move[1] # game_call.player

\* C9 happens: a move was made and another player is to move.
C9_Witness ==
    /\ game_call.op = "make_move"
    /\ game_call.res = "Ok"
    /\ Len(players_to_move(game).out) = 1
    /\ players_to_move(game_call.before).out = <<game_call.player>>

\* C10: make_move(p, c) for a player p that is not the sole member of
\* players_to_move() (another player's turn, or the game has ended) ends in
\* a fatal failure and never applies the move.
C10_NotToMoveIsFatal ==
    (game_call.op = "make_move"
     /\ players_to_move(game_call.before).out # <<game_call.player>>)
        => game_call.res = "Panic" /\ game = game_call.before


\* C11: in every reachable game, players_to_move returns exactly the id of
\* the player whose turn it is when the status is Ongoing and nothing when
\* the status is Win or Draw; it never returns more than max_players_to_move
\* entries and never changes the game.
C11_ToMoveIsTurnWhileOngoing ==
    LET r == players_to_move(game)
    IN  /\ r.res = "Ok"
        /\ game.board.game_status = Ongoing
             => r.out = <<player_to_id(game.board.turn)>>
        /\ game.board.game_status[1] \in {"Win", "Draw"} => r.out = <<>>
        /\ Len(r.out) <= max_players_to_move
        /\ r.game = game

\* C11 happens: players_to_move was asked in a game that make_move has won,
\* and answered with nobody.
C11_Witness ==
    /\ game_call.op = "players_to_move"
    /\ game_call.out = <<>>
    /\ game.board.game_status[1] = "Win"
    /\ game.board.move_index > 0


\* C12: in every reachable game, get_results returns nothing when the status
\* is Ongoing, exactly the winner's id when the status is Win, and nothing
\* when the status is Draw; whenever it returns somebody, players_to_move
\* returns nobody, and it never returns more than max_results entries.
C12_ResultsNameTheWinner ==
    LET r == get_results(game)
        status == game.board.game_status
    IN  /\ r.res = "Ok"
        /\ status = Ongoing => r.out = <<>>
        /\ status[1] = "Win" => r.out = <<player_to_id(status[2])>>
        /\ status = Draw => r.out = <<>>
        /\ r.out # <<>> => players_to_move(game).out = <<>>
        /\ Len(r.out) <= max_results
        /\ r.game = game

\* C12 happens: get_results named the player whose make_move won the game.
C12_Witness ==
    /\ game_call.op = "get_results"
    /\ Len(game_call.out) = 1
    /\ game.board.game_status = Win(player_from_id(game_call.out[1])[1])
    /\ game.board.pos = Goal
    /\ players_to_move(game).out = <<>>


\* C13: create is classified by the init info: Serialized fails with
\* FeatureUnsupported; Standard with a legacy field fails with InvalidLegacy
\* whatever its options and state are; Standard with a state string the
\* engine cannot decode fails with InvalidState; Standard with a decodable
\* state yields that position; Default and Standard without a state yield
\* the standard start position, for which players_to_move returns {1}.  No
\* failing create returns a game (the host's game stays what it was).
C13_CreateClassified ==
    /\ \A info \in InitInfos :
         create(info).res # "Ok" => create(info).game = None
    /\ game_call.op = "create" =>
         LET info == game_call.arg[1]
             standard == info.kind = "Standard" /\ info.legacy = None
         IN  /\ info.kind = "Serialized" => game_call.res = "FeatureUnsupported"
             /\ (info.kind = "Standard" /\ info.legacy # None)
                  => game_call.res = "InvalidLegacy"
             /\ (standard /\ info.state # None /\ ~from_str(info.state[1]).ok)
                  => game_call.res = "InvalidState"
             /\ (standard /\ info.state # None /\ from_str(info.state[1]).ok)
                  => /\ game_call.res = "Ok"
                     /\ game.board = from_str(info.state[1]).board
             /\ (info.kind = "Default" \/ (standard /\ info.state = None))
                  => /\ game_call.res = "Ok"
                     /\ game.board = default_board
                     /\ players_to_move(game).out = <<1>>
             /\ game_call.res # "Ok" => game = game_call.before

\* C13 happens: a Standard init info with a legacy field and a malformed
\* state string was refused as InvalidLegacy, next to a game in progress.
C13_Witness ==
    /\ game_call.op = "create"
    /\ game_call.res = "InvalidLegacy"
    /\ game_call.arg[1].state # None
    /\ ~from_str(game_call.arg[1].state[1]).ok
    /\ game.board.move_index > 0


\* C14: import_state replaces the board wholesale from any prior game:
\* without a state string the board becomes the standard starting position,
\* with a decodable string it becomes the decoded position whatever the
\* board was, and with a malformed string the call returns InvalidState and
\* leaves board and options exactly as before the call.
C14_ImportReplacesOrKeeps ==
    game_call.op = "import_state" =>
        LET state_str == game_call.arg[1]
        IN  /\ state_str = None
                 => game_call.res = "Ok" /\ game.board = default_board
            /\ (state_str # None /\ from_str(state_str[1]).ok)
                 => /\ game_call.res = "Ok"
                    /\ game.board = from_str(state_str[1]).board
            /\ (state_str # None /\ ~from_str(state_str[1]).ok)
                 => game_call.res = "InvalidState" /\ game = game_call.before
            /\ game.options = game_call.before.options

\* C14 happens: a malformed state string was refused while the board was an
\* advanced one, not the starting position.
C14_Witness ==
    /\ game_call.op = "import_state"
    /\ game_call.res = "InvalidState"
    /\ game.board.move_index > 0
    /\ game.board # default_board


C16_UndecodableCodeIsRecoverable ==
    /\ (/\ game_call.op \in {"is_legal_move", "get_move_str"}
        /\ game_call.player \in 1 .. HB_COUNT
        /\ move_try_from(game_call.code) = None)
         => /\ game_call.res \in {"InvalidInput", "InvalidMove"}
            /\ game = game_call.before
    /\ \A code \in Codes :
         move_try_from(code) = None
           => LET r == process_event(frontend, EventMove(code))
              IN  r.res = "InvalidMove" /\ r.mf = frontend


\* C17: player_from_id and player_to_id are inverse bijections between the
\* ids 1..3 and the three players; for every other 8-bit id (0 and 4..255)
\* player_from_id is a fatal failure and returns no player, id 0 included,
\* whose x - 1 wraps modulo 256; a call handing such an id to an operation
\* that converts it ends in that failure and changes nothing.
C17_PlayerIdsAreBijective ==
    /\ \A x \in 1 .. HB_COUNT :
         /\ player_from_id(x) # None
         /\ player_to_id(player_from_id(x)[1]) = x
    /\ \A c \in Colors :
         /\ player_to_id(c) \in 1 .. HB_COUNT
         /\ player_from_id(player_to_id(c)) = Some(c)
    /\ \A x \in (0 .. U8 - 1) \ (1 .. HB_COUNT) : player_from_id(x) = None
    /\ (/\ game_call.op \in {"get_concrete_moves", "make_move", "is_legal_move"}
        /\ game_call.player \notin 1 .. HB_COUNT)
         => game_call.res = "Panic" /\ game = game_call.before

\* C17 happens: id 0 was handed to is_legal_move in a game where the last
\* player (the one 255 would wrap onto) is to move, and the call failed.
C17_Witness ==
    /\ game_call.op = "is_legal_move"
    /\ game_call.player = 0
    /\ game_call.res = "Panic"
    /\ game.board.turn = HB_COUNT - 1
    /\ game.board.game_status = Ongoing


\* C18: in every reachable state of the adapter, a GameState event with a
\* decodable state string replaces the local board by the decoded position
\* and leaves the adapter enabled; one with a malformed string returns
\* InvalidState and leaves board, disabled, localHistory and outbox (the
\* whole adapter) exactly as before the event.
C18_ResyncReplacesOrKeeps ==
    \A s \in StateStrs :
        LET r == process_event(frontend, EventState(Some(s)))
        IN  /\ from_str(s).ok
                 => /\ r.res = "Ok"
                    /\ r.mf.board = from_str(s).board
                    /\ ~r.mf.disabled
                    /\ r.mf.history = frontend.history
                    /\ r.mf.outbox = frontend.outbox
            /\ ~from_str(s).ok
                 => r.res = "InvalidState" /\ r.mf = frontend

\* C18 happens: a malformed resync string was refused by an unloaded adapter
\* whose board had been advanced, and the adapter is still disabled.
C18_Witness ==
    /\ frontend_call.op = "process_event"
    /\ frontend_call.kind = "GameState"
    /\ frontend_call.res = "InvalidState"
    /\ frontend.disabled
    /\ frontend.board.move_index > 0


\* C19: in every reachable game, if is_legal_move(p, c) succeeds then
\* make_move(p, c) called next on the same game hits none of its fatal
\* assertions, returns success, and leaves the board equal to the engine's
\* result of performing the decoded move on the previous board;
\* is_legal_move itself changes nothing.
C19_LegalThenMakeMoveSucceeds ==
    \A p \in PlayerIds, c \in Codes :
        LET legal == is_legal_move(game, p, c)
            made == make_move(legal.game, p, c)
        IN  /\ legal.game = game
            /\ legal.res = "Ok"
                 => /\ made.res = "Ok"
                    /\ move_try_from(c) # None
                    /\ made.game.board =
                         perform_move(game.board, move_try_from(c)[1])
                    /\ made.game.options = game.options

\* C19 happens: a move that is_legal_move accepts was made in a position
\* where the other decodable move is refused, and it won the game.
C19_Witness ==
    /\ game_call.op = "make_move"
    /\ game_call.res = "Ok"
    /\ is_legal_move(game_call.before, game_call.player, game_call.code).res
         = "Ok"
    /\ \E c \in Codes :
         /\ move_try_from(c) # None
         /\ is_legal_move(game_call.before, game_call.player, c).res
              = "InvalidInput"
    /\ game.board.game_status[1] = "Win"


\* C20: in every reachable state of the adapter, a GameLoadMethods event
\* whose init info create rejects (Serialized, a legacy field, a malformed
\* state) returns create's error and leaves the whole adapter unchanged:
\* the board is not replaced, the interaction state is not reset, disabled
\* keeps its value; one that create accepts resets the interaction state,
\* installs the created board and sets disabled to false.
C20_LoadInstallsOrKeeps ==
    \A info \in InitInfos :
        LET created == create(info)
            r == process_event(frontend, EventLoad(info))
        IN  /\ created.res # "Ok"
                 => /\ created.res \in {"FeatureUnsupported", "InvalidLegacy",
                                        "InvalidState"}
                    /\ r.res = created.res
                    /\ r.mf = frontend
            /\ created.res = "Ok"
                 => /\ r.res = "Ok"
                    /\ r.mf.board = created.game[1].board
                    /\ ~r.mf.disabled
                    /\ r.mf.history = <<>>
                    /\ r.mf.dragged_square = None
                    /\ r.mf.hovered_square = None
                    /\ r.mf.outbox = frontend.outbox

\* C20 happens: a load with a malformed state string was refused by an
\* enabled adapter in the middle of a drag, which stays enabled on its
\* advanced board.
C20_Witness ==
    /\ frontend_call.op = "process_event"
    /\ frontend_call.kind = "GameLoadMethods"
    /\ frontend_call.res = "InvalidState"
    /\ ~frontend.disabled
    /\ frontend.board.move_index > 0
    /\ frontend.dragged_square # None

====
